---- MODULE Spec2Model ----
(***************************************************************************)
(* Audio path of MinUI: the linear-interpolation resampler                 *)
(* (workspace/all/common/audio_resampler.c) and the ring-buffer sound      *)
(* context of workspace/all/common/api.c (the SND functions).             *)
(*                                                                         *)
(* Two threads touch the sound context `snd`: the host thread, which calls *)
(* SND_init, SND_batchSamples, SND_getBufferOccupancy and SND_quit one     *)
(* after the other, and the SDL audio thread, which runs SND_audioCallback *)
(* with the audio device lock held (SDL takes the device lock around every *)
(* callback; SDL_LockAudio on the host takes the same lock).               *)
(*                                                                         *)
(* Numbers: float and double arithmetic of the rate controller is modelled *)
(* in exact rationals <<num, den>>; unsigned 32-bit values are kept below  *)
(* 2^31 by the modelled rates, so their wrap-around never acts.            *)
(***************************************************************************)
EXTENDS Integers, Sequences, FiniteSets, TLC

(***************************************************************************)
(* Program constants                                                       *)
(***************************************************************************)
FRAC_BITS == 16
FRAC_ONE == 2 ^ FRAC_BITS
MAX_TRIES == 10
BUFFER_SECONDS == 5

(***************************************************************************)
(* Bounds of the model                                                     *)
(***************************************************************************)
MaxFrames == 3
MaxBatch == 2
MaxPull == 2
LoopFuel == 24
MaxInput == 3
MaxCap == 10

\* sample rates the host asks for, rates the sink grants, driving frame rates
InRates == {0, 2, 3}
OutRates == {2, 3}
FrameRates == {5}
\* the k-th input frame (left, right) the host submits: all frames differ
InputFrame(k) == <<100 * k * k, 0 - 300 * k>>

ZeroFrame == <<0, 0>>
NULL == <<>>

VARIABLES
    \* struct SND_Context snd
    initialized, frame_rate, sample_rate_in, sample_rate_out, buffer_seconds,
    buffer, frame_count, frame_in, frame_out, frame_filled, resampler,
    \* SDL audio device
    audio_open, audio_paused, lock,
    \* host thread: position, arguments and locals of the call in progress
    hpc, frames, carry, rate_adjust, estimated_output, available, tries, ring,
    result, ret,
    \* audio thread: the stream of the last callback and its requested length
    stream, stream_len, stream_real,
    \* the process has faulted (NULL store dereferenced)
    crashed,
    \* history: frames the resampler stored / the callback read since the last
    \* sizing, the last frame the callback read, input frames submitted so far
    written, delivered, last_read, submitted,
    \* resampler test bench: the whole input, the calls cut short, how the
    \* last call ended, the totals of the results, the seconds of input,
    \* the locals of a call in progress; the resets so far, the frames written
    \* before the last reset and the resampler as it was before it
    harness

snd_vars == <<initialized, frame_rate, sample_rate_in, sample_rate_out,
              buffer_seconds, buffer, frame_count, frame_in, frame_out,
              frame_filled, resampler>>
dev_vars == <<audio_open, audio_paused, lock>>
host_vars == <<hpc, frames, carry, rate_adjust, estimated_output, available,
               tries, ring, result, ret>>
cb_vars == <<stream, stream_len, stream_real>>
hist_vars == <<written, delivered, last_read, submitted>>
vars == <<snd_vars, dev_vars, host_vars, cb_vars, hist_vars, crashed, harness>>

(***************************************************************************)
(* Helpers                                                                 *)
(***************************************************************************)
Min(a, b) == IF a < b THEN a ELSE b

Max(a, b) == IF a > b THEN a ELSE b

Zeros(n) == [i \in 1..n |-> ZeroFrame]

Drop(s, k) == SubSeq(s, k + 1, Len(s))

\* (int16_t) conversion
ToInt16(x) == ((x + 32768) % 65536) - 32768

(***************************************************************************)
(* audio_resampler.c                                                       *)
(***************************************************************************)

\* floor(diff * frac / 2^16), the arithmetic shift of the exact product,
\* computed in two halves of frac
MulShift16(diff, frac) ==
    LET fh == frac \div 256
        fl == frac % 256
    IN  (diff * fh + ((diff * fl) \div 256)) \div 256

\* the int32 product diff * frac leaves the signed 32-bit range
LerpOverflows(a, b, frac) ==
    LET diff == b - a
        mag == IF diff < 0 THEN -diff ELSE diff
    IN  frac > 0 /\ mag > 2147483647 \div frac

\* lerp_s16: the wrapped 32-bit product differs from the exact one by a
\* multiple of 2^32, which the shift turns into a multiple of 2^16 and the
\* int16_t conversion removes
lerp_s16_swapped(a, b, frac) == ToInt16(b + MulShift16(a - b, frac))
lerp_s16(a, b, frac) == ToInt16(a + MulShift16(b - a, frac))

\* out = prev in place of the two calls of lerp_s16
LerpFrame_nearest(prev, curr, frac) == prev
LerpFrame(prev, curr, frac) ==
    <<lerp_s16(prev[1], curr[1], frac), lerp_s16(prev[2], curr[2], frac)>>

\* ((uint64_t)n << FRAC_BITS) / d for n >= 0 and d > 0, the 64-bit quotient
\* computed in parts: n = q * d + r, and r * 2^16 / d in two shifts of 8 bits
ShiftDiv16(n, d) ==
    LET q == n \div d
        r == n % d
        h == (r * 256) \div d
        r2 == (r * 256) % d
    IN  q * FRAC_ONE + h * 256 + (r2 * 256) \div d

NullResampler ==
    [sample_rate_in |-> 0, sample_rate_out |-> 0, frac_pos |-> 0,
     frac_step |-> 0, prev_frame |-> ZeroFrame, has_prev |-> 0]

\* the step as rate_out / rate_in
AudioResampler_init_inverse(rate_in, rate_out) ==
    [sample_rate_in |-> rate_in, sample_rate_out |-> rate_out,
     frac_step |-> IF rate_in <= 0 THEN FRAC_ONE
                   ELSE ShiftDiv16(rate_out, rate_in),
     frac_pos |-> 0, prev_frame |-> ZeroFrame, has_prev |-> 0]

AudioResampler_init(rate_in, rate_out) ==
    [sample_rate_in |-> rate_in, sample_rate_out |-> rate_out,
     frac_step |-> IF rate_out <= 0 THEN FRAC_ONE
                   ELSE ShiftDiv16(rate_in, rate_out),
     frac_pos |-> 0, prev_frame |-> ZeroFrame, has_prev |-> 0]

AudioResampler_reset_keepfrac(r) ==
    [r EXCEPT !.prev_frame = ZeroFrame, !.has_prev = 0]
AudioResampler_reset(r) ==
    [r EXCEPT !.frac_pos = 0, !.prev_frame = ZeroFrame, !.has_prev = 0]

\* adjusted_step with the adjustment dividing the step
AdjustedStep_divided(frac_step, adj) ==
    LET raw == (frac_step * adj[2]) \div adj[1]
        min_step == frac_step \div 2
        max_step == frac_step * 2
    IN  IF raw < min_step THEN min_step
        ELSE IF raw > max_step THEN max_step
        ELSE raw

\* adjusted_step of AudioResampler_resample: frac_step * ratio_adjust,
\* clamped to [frac_step / 2, frac_step * 2]
AdjustedStep(frac_step, adj) ==
    LET raw == (frac_step * adj[1]) \div adj[2]
        min_step == frac_step \div 2
        max_step == frac_step * 2
    IN  IF raw < min_step THEN min_step
        ELSE IF raw > max_step THEN max_step
        ELSE raw

\* the slot after write_pos, wrapped
NextPos_nowrap(rb) == rb.write_pos + 1
NextPos(rb) == IF rb.write_pos + 1 >= rb.capacity THEN 0 ELSE rb.write_pos + 1

\* the full-buffer check before each write
RingFull_off(rb) == FALSE
RingFull(rb) == NextPos(rb) = rb.read_pos

\* the stop on a full buffer: goto done, the current input frame not counted
StopFull_consume(st) ==
    [st EXCEPT !.end = "full", !.input_idx = @ + 1, !.frames_consumed = @ + 1]
StopFull(st) == [st EXCEPT !.end = "full"]

\* past curr: frac_pos -= FRAC_ONE; prev = curr; input_idx++; frames_consumed++
NextInput_keepfrac(st, curr) ==
    [st EXCEPT !.prev = curr, !.input_idx = @ + 1, !.frames_consumed = @ + 1]
NextInput(st, curr) ==
    [st EXCEPT !.frac_pos = @ - FRAC_ONE, !.prev = curr,
               !.input_idx = @ + 1, !.frames_consumed = @ + 1]

\* the state saved at `done`
SaveState_dropfrac(r, st) ==
    [r EXCEPT !.frac_pos = 0, !.prev_frame = st.prev, !.has_prev = st.has_prev]
SaveState_losehas(r, st) ==
    [r EXCEPT !.frac_pos = st.frac_pos, !.prev_frame = st.prev]
SaveState(r, st) ==
    [r EXCEPT !.frac_pos = st.frac_pos, !.prev_frame = st.prev,
              !.has_prev = st.has_prev]

\* One pass of the body of the loops of AudioResampler_resample on the frame
\* in[input_idx]: the first frame ever is stored and consumed; else, while
\* frac_pos < FRAC_ONE, the full check and one frame written; else the move
\* to the next input frame.  st carries the locals (input_idx, frac_pos, prev,
\* has_prev), the ring wrapper rb (null for a dry run), the store the wrapper
\* points to, the result counts, the frames emitted, and how the call ended.
ResampleStep(st, in, adjusted_step) ==
    LET curr == in[st.input_idx + 1] IN
    IF st.has_prev = 0 THEN
        [st EXCEPT !.prev = curr, !.has_prev = 1,
                   !.input_idx = @ + 1, !.frames_consumed = @ + 1]
    ELSE IF st.frac_pos < FRAC_ONE THEN
        IF ~st.rb.null /\ RingFull(st.rb) THEN StopFull(st)
        ELSE IF ~st.rb.null /\ st.store = NULL THEN [st EXCEPT !.end = "segv"]
        ELSE LET out == LerpFrame(st.prev, curr, st.frac_pos) IN
            [st EXCEPT
                !.store = IF st.rb.null THEN @
                          ELSE [@ EXCEPT ![st.rb.write_pos + 1] = out],
                !.rb = IF st.rb.null THEN @
                       ELSE [@ EXCEPT !.write_pos = NextPos(st.rb)],
                !.frames_written = @ + 1,
                !.out = Append(@, out),
                !.frac_pos = @ + adjusted_step]
    ELSE NextInput(st, curr)

\* The loops of AudioResampler_resample, pass after pass, until the input is
\* consumed or the ring is full; fuel bounds the passes.
RECURSIVE ResampleLoop(_, _, _, _)
ResampleLoop(st, in, adjusted_step, fuel) ==
    IF st.end # "run" THEN st
    ELSE IF st.input_idx >= Len(in) THEN [st EXCEPT !.end = "done"]
    ELSE IF fuel = 0 THEN [st EXCEPT !.end = "spin"]
    ELSE ResampleLoop(ResampleStep(st, in, adjusted_step), in, adjusted_step,
                      fuel - 1)

\* AudioResampler_resample(resampler, buffer, frames, frame_count, ratio_adjust)
\* returns the resampler as saved, the wrapper, the store, the result and the
\* frames emitted
AudioResampler_resample(r, rb, store, in, adj) ==
    LET st0 == [input_idx |-> 0, frac_pos |-> r.frac_pos, prev |-> r.prev_frame,
                has_prev |-> r.has_prev, rb |-> rb, store |-> store,
                frames_written |-> 0, frames_consumed |-> 0, out |-> <<>>,
                end |-> "run"]
    IN  IF Len(in) <= 0
        THEN [resampler |-> r, rb |-> rb, store |-> store, frames_written |-> 0,
              frames_consumed |-> 0, out |-> <<>>, end |-> "done"]
        ELSE LET st == ResampleLoop(st0, in, AdjustedStep(r.frac_step, adj),
                                    LoopFuel)
             IN  [resampler |-> IF st.end \in {"done", "full"}
                                THEN SaveState(r, st) ELSE r,
                  rb |-> st.rb, store |-> st.store,
                  frames_written |-> st.frames_written,
                  frames_consumed |-> st.frames_consumed,
                  out |-> st.out, end |-> st.end]

AudioResampler_isNeeded(rate_in, rate_out) == rate_in # rate_out

\* (int)(input_frames * ratio / ratio_adjust + 0.5)
AudioResampler_estimateOutput(r, input_frames, adj) ==
    IF r.sample_rate_in <= 0 \/ adj[1] <= 0 THEN input_frames
    ELSE (2 * input_frames * r.sample_rate_out * adj[2]
            + r.sample_rate_in * adj[1])
         \div (2 * r.sample_rate_in * adj[1])

(***************************************************************************)
(* api.c, sound system                                                     *)
(***************************************************************************)

NullRing == [null |-> TRUE, capacity |-> 0, write_pos |-> 0, read_pos |-> 0]
NoResult == [frames_written |-> 0, frames_consumed |-> 0]
NoAdjust == <<1, 1>>
NoHarness == [input |-> <<>>, count |-> 0, calls |-> 0, cut |-> 0,
              last |-> "none", frames_written |-> 0, frames_consumed |-> 0,
              seconds |-> 0, st |-> <<>>, resets |-> 0, base |-> 0,
              before |-> <<>>]

\* snd.frame_out += 1; if (snd.frame_out >= (int)snd.frame_count) snd.frame_out = 0
AdvanceRead_nowrap(pos, count) == pos + 1
AdvanceRead(pos, count) == IF pos + 1 >= count THEN 0 ELSE pos + 1

\* The read loop of SND_audioCallback: st carries out (the frames stored to
\* the stream so far), snd.frame_out, snd.frame_filled and len.
RECURSIVE CallbackDrain(_, _, _, _)
CallbackDrain(st, store, fin, count) ==
    IF st.frame_out # fin /\ st.len > 0 THEN
        IF st.frame_out + 1 \notin DOMAIN store THEN [st EXCEPT !.end = "segv"]
        ELSE CallbackDrain(
                [st EXCEPT !.out = Append(@, store[st.frame_out + 1]),
                           !.frame_filled = st.frame_out,
                           !.frame_out = AdvanceRead(@, count),
                           !.len = @ - 1,
                           !.real = @ + 1],
                store, fin, count)
    ELSE st

\* The underrun branch of SND_audioCallback
CallbackUnderrun_silence(st, store, count) ==
    IF st.end = "segv" \/ st.len <= 0 THEN st
    ELSE [st EXCEPT !.out = @ \o Zeros(st.len), !.len = 0]
CallbackUnderrun(st, store, count) ==
    IF st.end = "segv" \/ st.len <= 0 THEN st
    ELSE IF st.frame_filled >= 0 /\ st.frame_filled < count THEN
        IF st.frame_filled + 1 \notin DOMAIN store THEN [st EXCEPT !.end = "segv"]
        ELSE [st EXCEPT !.out = @ \o [i \in 1..st.len |-> store[st.frame_filled + 1]],
                        !.len = 0]
    ELSE [st EXCEPT !.out = @ \o Zeros(st.len), !.len = 0]

\* SND_audioCallback(userdata, stream, len), len in frames
SND_audioCallback(len, store, count, fin, fout, filled) ==
    LET st0 == [out |-> <<>>, frame_out |-> fout, frame_filled |-> filled,
                len |-> len, real |-> 0, end |-> "ok"]
    IN  IF count = 0 THEN st0
        ELSE CallbackUnderrun(CallbackDrain(st0, store, fin, count), store, count)

\* SND_resizeBuffer, first statement: the frame count from the rates
ResizeFrameCount(seconds, rate_in, fr) == (seconds * rate_in) \div fr

\* SND_getBufferFillLevel as the pair <<filled, frame_count>>
SND_getBufferFillLevel_nowrap(count, fin, fout) ==
    IF count = 0 THEN <<0, 1>> ELSE <<fin - fout, count>>
SND_getBufferFillLevel(count, fin, fout) ==
    IF count = 0 THEN <<0, 1>>
    ELSE IF fin >= fout THEN <<fin - fout, count>>
    ELSE <<count - fout + fin, count>>

\* SND_calculateRateAdjust as the pair <<num, den>>: with fill = f / c,
\* 1 - ((0.3 - fill) / 0.3) * 0.02 = (147c + 10f) / 150c and
\* 1 + ((fill - 0.7) / 0.3) * 0.02 = (143c + 10f) / 150c
SND_calculateRateAdjust(count, fin, fout) ==
    LET fill == SND_getBufferFillLevel(count, fin, fout)
        f == fill[1]
        c == fill[2]
    IN  IF 10 * f < 3 * c THEN <<147 * c + 10 * f, 150 * c>>
        ELSE IF 10 * f > 7 * c THEN <<143 * c + 10 * f, 150 * c>>
        ELSE NoAdjust

\* `available` of SND_batchSamples
Available(count, fin, fout) ==
    IF fin >= fout THEN count - (fin - fout) - 1 ELSE fout - fin - 1

\* the ring wrapper SND_batchSamples hands to the resampler
RingWrapper(count, fin, fout) ==
    [null |-> FALSE, capacity |-> count, write_pos |-> fin, read_pos |-> fout]

\* n / d rounded to the nearest integer, a tie to the even one
RoundHalfEven(n, d) ==
    LET q == n \div d
        r == n % d
    IN  IF 2 * r > d \/ (2 * r = d /\ q % 2 = 1) THEN q + 1 ELSE q

\* the least e from lo on with n * 2^e >= 2^23 * d
RECURSIVE F32Exp(_, _, _)
F32Exp(n, d, lo) == IF n * 2 ^ lo >= 2 ^ 23 * d THEN lo ELSE F32Exp(n, d, lo + 1)

\* (float)filled / (float)frame_count for 0 < filled <= frame_count < 128, as
\* the pair <<m, e>> that stands for m / 2^e: the quotient rounded to the 24
\* bits of a float
F32Div(filled, count) ==
    LET e == F32Exp(filled, count, 23)
    IN  <<RoundHalfEven(filled * 2 ^ e, count), e>>

\* fill * 100.0f: the product rounded to the 24 bits of a float
F32Mul100(f) ==
    LET v == f[1] * 100
        s == IF v < 2 ^ 30 THEN 6 ELSE 7
    IN  <<RoundHalfEven(v, 2 ^ s), f[2] - s>>

\* (unsigned)(fill * 100.0f), fill being the float filled / frame_count
OccupancyPercent(fill) ==
    IF fill[1] = 0 THEN 0
    ELSE LET p == F32Mul100(F32Div(fill[1], fill[2]))
         IN  p[1] \div 2 ^ p[2]

(***************************************************************************)
(* Initial state: static struct SND_Context snd = {0}, device closed       *)
(***************************************************************************)
Init ==
    /\ initialized = 0 /\ frame_rate = 0 /\ sample_rate_in = 0
    /\ sample_rate_out = 0 /\ buffer_seconds = 0 /\ buffer = NULL
    /\ frame_count = 0 /\ frame_in = 0 /\ frame_out = 0 /\ frame_filled = 0
    /\ resampler = NullResampler
    /\ audio_open = FALSE /\ audio_paused = TRUE /\ lock = "none"
    /\ hpc = "idle" /\ frames = <<>> /\ carry = <<>> /\ rate_adjust = NoAdjust
    /\ estimated_output = 0 /\ available = 0 /\ tries = 0 /\ ring = NullRing
    /\ result = NoResult /\ ret = 0
    /\ stream = <<>> /\ stream_len = 0 /\ stream_real = 0
    /\ crashed = FALSE
    /\ written = <<>> /\ delivered = <<>> /\ last_read = <<>> /\ submitted = 0
    /\ harness = NoHarness

(***************************************************************************)
(* SND_init, in the steps between which the audio thread may run           *)
(***************************************************************************)

\* SND_init up to the call of SND_resizeBuffer: memset, SDL_OpenAudio (the
\* device opens paused, with a fresh stream, and grants the rate freq), rates,
\* AudioResampler_init.  The host opens the device only while it is closed.
SND_init_begin(sample_rate, fr, freq) ==
    /\ hpc = "idle" /\ ~crashed /\ ~audio_open
    /\ initialized' = 0
    /\ frame_rate' = fr
    /\ buffer_seconds' = BUFFER_SECONDS
    /\ sample_rate_in' = sample_rate
    /\ sample_rate_out' = freq
    /\ buffer' = NULL
    /\ frame_count' = 0 /\ frame_in' = 0 /\ frame_out' = 0 /\ frame_filled' = 0
    /\ resampler' = AudioResampler_init(sample_rate, freq)
    /\ audio_open' = TRUE /\ audio_paused' = TRUE
    /\ hpc' = "resize"
    /\ stream' = <<>> /\ stream_len' = 0 /\ stream_real' = 0
    /\ written' = <<>> /\ delivered' = <<>> /\ last_read' = <<>>
    /\ UNCHANGED <<lock, frames, carry, rate_adjust, estimated_output,
                   available, tries, ring, result, ret, crashed, submitted>>
    /\ UNCHANGED harness

\* SND_resizeBuffer: snd.frame_count = ...; if (snd.frame_count == 0) return;
SND_resizeBuffer_count ==
    /\ hpc = "resize" /\ ~crashed
    /\ frame_count' = ResizeFrameCount(buffer_seconds, sample_rate_in, frame_rate)
    /\ hpc' = IF frame_count' = 0 THEN "init_end" ELSE "resize_lock"
    /\ UNCHANGED <<initialized, frame_rate, sample_rate_in, sample_rate_out,
                   buffer_seconds, buffer, frame_in, frame_out, frame_filled,
                   resampler, dev_vars, frames, carry, rate_adjust,
                   estimated_output, available, tries, ring, result, ret,
                   cb_vars, hist_vars, crashed>>
    /\ UNCHANGED harness

\* SND_resizeBuffer: SDL_LockAudio()
SND_resizeBuffer_lock ==
    /\ hpc = "resize_lock" /\ ~crashed /\ lock = "none"
    /\ lock' = "host"
    /\ hpc' = "resize_alloc"
    /\ UNCHANGED <<snd_vars, audio_open, audio_paused, frames, carry,
                   rate_adjust, estimated_output, available, tries, ring,
                   result, ret, cb_vars, hist_vars, crashed>>
    /\ UNCHANGED harness

\* SND_resizeBuffer without the memset: the store as realloc leaves it
SND_resizeBuffer_alloc_unzeroed(ok) ==
    /\ hpc = "resize_alloc" /\ ~crashed
    /\ IF ok
       THEN /\ buffer' = [i \in 1..frame_count |-> InputFrame(1)]
            /\ frame_in' = 0 /\ frame_out' = 0
            /\ frame_filled' = frame_count - 1
            /\ written' = <<>> /\ delivered' = <<>> /\ last_read' = <<>>
       ELSE UNCHANGED <<buffer, frame_in, frame_out, frame_filled, written,
                        delivered, last_read>>
    /\ lock' = "none"
    /\ hpc' = "init_end"
    /\ UNCHANGED <<initialized, frame_rate, sample_rate_in, sample_rate_out,
                   buffer_seconds, frame_count, resampler, audio_open,
                   audio_paused, frames, carry, rate_adjust, estimated_output,
                   available, tries, ring, result, ret, cb_vars, crashed,
                   submitted>>
    /\ UNCHANGED harness

\* SND_resizeBuffer: realloc (ok says whether it succeeds), memset, cursors,
\* SDL_UnlockAudio()
SND_resizeBuffer_alloc(ok) ==
    /\ hpc = "resize_alloc" /\ ~crashed
    /\ IF ok
       THEN /\ buffer' = Zeros(frame_count)
            /\ frame_in' = 0 /\ frame_out' = 0
            /\ frame_filled' = frame_count - 1
            /\ written' = <<>> /\ delivered' = <<>> /\ last_read' = <<>>
       ELSE UNCHANGED <<buffer, frame_in, frame_out, frame_filled, written,
                        delivered, last_read>>
    /\ lock' = "none"
    /\ hpc' = "init_end"
    /\ UNCHANGED <<initialized, frame_rate, sample_rate_in, sample_rate_out,
                   buffer_seconds, frame_count, resampler, audio_open,
                   audio_paused, frames, carry, rate_adjust, estimated_output,
                   available, tries, ring, result, ret, cb_vars, crashed,
                   submitted>>
    /\ UNCHANGED harness

\* SND_init after SND_resizeBuffer: SDL_PauseAudio(0); snd.initialized = 1
SND_init_end ==
    /\ hpc = "init_end" /\ ~crashed
    /\ audio_paused' = FALSE
    /\ initialized' = 1
    /\ hpc' = "idle"
    /\ UNCHANGED <<frame_rate, sample_rate_in, sample_rate_out, buffer_seconds,
                   buffer, frame_count, frame_in, frame_out, frame_filled,
                   resampler, audio_open, lock, frames, carry, rate_adjust,
                   estimated_output, available, tries, ring, result, ret,
                   cb_vars, hist_vars, crashed>>
    /\ UNCHANGED harness

(***************************************************************************)
(* The audio thread: one callback, run with the device lock held           *)
(***************************************************************************)
AudioCallback(len) ==
    /\ audio_open /\ ~audio_paused /\ lock = "none" /\ ~crashed
    /\ \E st \in {SND_audioCallback(len, buffer, frame_count, frame_in,
                                     frame_out, frame_filled)} :
           IF st.end = "segv"
           THEN /\ crashed' = TRUE
                /\ UNCHANGED <<frame_out, frame_filled, cb_vars, delivered,
                               last_read>>
           ELSE /\ frame_out' = st.frame_out
                /\ frame_filled' = st.frame_filled
                /\ stream' = st.out
                /\ stream_len' = len
                /\ stream_real' = st.real
                /\ delivered' = delivered \o SubSeq(st.out, 1, st.real)
                /\ last_read' = IF st.real > 0 THEN <<st.out[st.real]>>
                                ELSE last_read
                /\ UNCHANGED crashed
    /\ UNCHANGED <<initialized, frame_rate, sample_rate_in, sample_rate_out,
                   buffer_seconds, buffer, frame_count, frame_in, resampler,
                   dev_vars, host_vars, written, submitted>>
    /\ UNCHANGED harness

(***************************************************************************)
(* SND_batchSamples                                                        *)
(***************************************************************************)

\* the next n frames of the host's input
Fresh(n) == [i \in 1..n |-> InputFrame(submitted + i)]

\* The call, with the frames left over by the last call first and n new
\* ones after them: the early return on frame_count == 0, else
\* SDL_LockAudio(), the rate adjustment, the estimate and the available space.
SND_batchSamples_enter(n) ==
    /\ hpc = "idle" /\ ~crashed /\ lock = "none"
    /\ Len(carry) + n <= MaxBatch
    /\ submitted + n <= MaxFrames
    /\ submitted' = submitted + n
    /\ IF frame_count = 0
       THEN /\ ret' = 0
            /\ carry' = carry \o Fresh(n)
            /\ UNCHANGED <<hpc, frames, lock, rate_adjust, estimated_output,
                           available, tries>>
       ELSE /\ frames' = carry \o Fresh(n)
            /\ carry' = <<>>
            /\ lock' = "host"
            /\ rate_adjust' = SND_calculateRateAdjust(frame_count, frame_in,
                                                      frame_out)
            /\ estimated_output' =
                   AudioResampler_estimateOutput(resampler, Len(frames'),
                                                 rate_adjust')
            /\ available' = Available(frame_count, frame_in, frame_out)
            /\ tries' = 0
            /\ hpc' = "bs_wait"
            /\ UNCHANGED ret
    /\ UNCHANGED <<snd_vars, audio_open, audio_paused, ring, result, cb_vars,
                   written, delivered, last_read, crashed>>
    /\ UNCHANGED harness

\* while (tries < 10 && available < estimated_output):
\* tries++; SDL_UnlockAudio(); SDL_Delay(1)
SND_batchSamples_retry_locked ==
    /\ hpc = "bs_wait" /\ ~crashed
    /\ tries < MAX_TRIES /\ available < estimated_output
    /\ tries' = tries + 1
    /\ hpc' = "bs_sleep"
    /\ UNCHANGED <<snd_vars, dev_vars, frames, carry, rate_adjust,
                   estimated_output, available, ring, result, ret, cb_vars,
                   hist_vars, crashed>>
    /\ UNCHANGED harness
SND_batchSamples_retry ==
    /\ hpc = "bs_wait" /\ ~crashed
    /\ tries < MAX_TRIES /\ available < estimated_output
    /\ tries' = tries + 1
    /\ lock' = "none"
    /\ hpc' = "bs_sleep"
    /\ UNCHANGED <<snd_vars, audio_open, audio_paused, frames, carry,
                   rate_adjust, estimated_output, available, ring, result, ret,
                   cb_vars, hist_vars, crashed>>
    /\ UNCHANGED harness

\* SDL_LockAudio() after the delay; recalculate the available space
SND_batchSamples_wake ==
    /\ hpc = "bs_sleep" /\ ~crashed /\ lock = "none"
    /\ lock' = "host"
    /\ available' = Available(frame_count, frame_in, frame_out)
    /\ hpc' = "bs_wait"
    /\ UNCHANGED <<snd_vars, audio_open, audio_paused, frames, carry,
                   rate_adjust, estimated_output, tries, ring, result, ret,
                   cb_vars, hist_vars, crashed>>
    /\ UNCHANGED harness

\* the ring wrapper and the call of AudioResampler_resample
SND_batchSamples_resample ==
    /\ hpc = "bs_wait" /\ ~crashed
    /\ ~(tries < MAX_TRIES /\ available < estimated_output)
    /\ \E res \in {AudioResampler_resample(
                        resampler, RingWrapper(frame_count, frame_in, frame_out),
                        buffer, frames, rate_adjust)} :
           IF res.end = "segv"
           THEN /\ crashed' = TRUE
                /\ UNCHANGED <<buffer, resampler, ring, result, hpc, written>>
           ELSE /\ buffer' = res.store
                /\ resampler' = res.resampler
                /\ ring' = res.rb
                /\ result' = [frames_written |-> res.frames_written,
                              frames_consumed |-> res.frames_consumed]
                /\ written' = written \o res.out
                /\ hpc' = IF res.end = "spin" THEN "bs_spin" ELSE "bs_commit"
                /\ UNCHANGED crashed
    /\ UNCHANGED <<initialized, frame_rate, sample_rate_in, sample_rate_out,
                   buffer_seconds, frame_count, frame_in, frame_out,
                   frame_filled, dev_vars, frames, carry, rate_adjust,
                   estimated_output, available, tries, ret, cb_vars, delivered,
                   last_read, submitted>>
    /\ UNCHANGED harness

\* snd.frame_in = ring.write_pos; SDL_UnlockAudio(); return frames_consumed.
\* The host keeps the frames not consumed for its next call.
SND_batchSamples_commit ==
    /\ hpc = "bs_commit" /\ ~crashed
    /\ frame_in' = ring.write_pos
    /\ lock' = "none"
    /\ ret' = result.frames_consumed
    /\ carry' = Drop(frames, result.frames_consumed)
    /\ frames' = <<>>
    /\ rate_adjust' = NoAdjust /\ estimated_output' = 0 /\ available' = 0
    /\ tries' = 0 /\ ring' = NullRing /\ result' = NoResult
    /\ hpc' = "idle"
    /\ UNCHANGED <<initialized, frame_rate, sample_rate_in, sample_rate_out,
                   buffer_seconds, buffer, frame_count, frame_out,
                   frame_filled, resampler, audio_open, audio_paused, cb_vars,
                   hist_vars, crashed>>
    /\ UNCHANGED harness

(***************************************************************************)
(* SND_getBufferOccupancy: lock, fill level, unlock                        *)
(***************************************************************************)
SND_getBufferOccupancy ==
    /\ hpc = "idle" /\ ~crashed /\ lock = "none"
    /\ ret' = OccupancyPercent(SND_getBufferFillLevel(frame_count, frame_in,
                                                      frame_out))
    /\ UNCHANGED <<snd_vars, dev_vars, hpc, frames, carry, rate_adjust,
                   estimated_output, available, tries, ring, result, cb_vars,
                   hist_vars, crashed>>
    /\ UNCHANGED harness

(***************************************************************************)
(* SND_quit: SDL_PauseAudio(1); SDL_CloseAudio(); free(snd.buffer)         *)
(***************************************************************************)
\* if (!snd.initialized) return; SDL_PauseAudio(1)
SND_quit_free_first ==
    /\ hpc = "idle" /\ ~crashed
    /\ initialized # 0
    /\ buffer' = NULL
    /\ hpc' = "quit_close"
    /\ UNCHANGED <<initialized, frame_rate, sample_rate_in, sample_rate_out,
                   buffer_seconds, frame_count, frame_in, frame_out,
                   frame_filled, resampler, dev_vars, frames, carry,
                   rate_adjust, estimated_output, available, tries, ring,
                   result, ret, cb_vars, hist_vars, crashed>>
    /\ UNCHANGED harness
SND_quit_pause ==
    /\ hpc = "idle" /\ ~crashed
    /\ initialized # 0
    /\ audio_paused' = TRUE
    /\ hpc' = "quit_close"
    /\ UNCHANGED <<snd_vars, audio_open, lock, frames, carry, rate_adjust,
                   estimated_output, available, tries, ring, result, ret,
                   cb_vars, hist_vars, crashed>>
    /\ UNCHANGED harness

\* SDL_CloseAudio()
SND_quit_close ==
    /\ hpc = "quit_close" /\ ~crashed
    /\ audio_open' = FALSE
    /\ hpc' = "quit_free"
    /\ UNCHANGED <<snd_vars, audio_paused, lock, frames, carry, rate_adjust,
                   estimated_output, available, tries, ring, result, ret,
                   cb_vars, hist_vars, crashed>>
    /\ UNCHANGED harness

\* if (snd.buffer) { free(snd.buffer); snd.buffer = NULL; }
SND_quit_free ==
    /\ hpc = "quit_free" /\ ~crashed
    /\ buffer' = NULL
    /\ hpc' = "idle"
    /\ UNCHANGED <<initialized, frame_rate, sample_rate_in, sample_rate_out,
                   buffer_seconds, frame_count, frame_in, frame_out,
                   frame_filled, resampler, dev_vars, frames, carry,
                   rate_adjust, estimated_output, available, tries, ring,
                   result, ret, cb_vars, hist_vars, crashed>>
    /\ UNCHANGED harness

SND_quit == SND_quit_pause \/ SND_quit_close \/ SND_quit_free

Next ==
    \/ \E sr \in InRates, fr \in FrameRates, freq \in OutRates :
           SND_init_begin(sr, fr, freq)
    \/ SND_resizeBuffer_count
    \/ SND_resizeBuffer_lock
    \/ \E ok \in BOOLEAN : SND_resizeBuffer_alloc(ok)
    \/ SND_init_end
    \/ \E len \in 0..MaxPull : AudioCallback(len)
    \/ \E n \in 0..MaxBatch : SND_batchSamples_enter(n)
    \/ SND_batchSamples_retry
    \/ SND_batchSamples_wake
    \/ SND_batchSamples_resample
    \/ SND_batchSamples_commit
    \/ SND_getBufferOccupancy
    \/ SND_quit

Spec == Init /\ [][Next]_vars

\* The host thread runs the call it is in to its end: SDL_Delay(1) returns and
\* SDL_LockAudio() is granted, a callback being finite.
HostBatchStep ==
    \/ SND_batchSamples_retry
    \/ SND_batchSamples_wake
    \/ SND_batchSamples_resample
    \/ SND_batchSamples_commit


(***************************************************************************)
(* The engine in service: SND_init succeeds, the host keeps handing over   *)
(* what SND_batchSamples did not consume, the audio thread keeps calling   *)
(***************************************************************************)
LiveInRates == {1, 2}

\* the host calls again while frames are left over
Resubmit == carry # <<>> /\ \E n \in 0..MaxBatch : SND_batchSamples_enter(n)

\* the host thread goes on with the SND_init it is in
HostInitStep ==
    \/ SND_resizeBuffer_count
    \/ SND_resizeBuffer_lock
    \/ SND_resizeBuffer_alloc(TRUE)
    \/ SND_init_end

\* a callback that asks for at least one frame
Pull == \E len \in 1..MaxPull : AudioCallback(len)

NextL ==
    \/ \E sr \in LiveInRates, fr \in FrameRates, freq \in OutRates :
           SND_init_begin(sr, fr, freq)
    \/ SND_resizeBuffer_count
    \/ SND_resizeBuffer_lock
    \/ SND_resizeBuffer_alloc(TRUE)
    \/ SND_init_end
    \/ \E n \in 0..MaxBatch : SND_batchSamples_enter(n)
    \/ SND_batchSamples_retry
    \/ SND_batchSamples_wake
    \/ SND_batchSamples_resample
    \/ SND_batchSamples_commit
    \/ \E len \in 0..MaxPull : AudioCallback(len)

\* The host thread finishes the call it is in, of SND_init or of
\* SND_batchSamples, and calls SND_batchSamples again while frames are left
\* over; SDL calls the callback again and again, and the callback,
\* waiting for the device lock, gets it in one of the host's sleeps or
\* between two calls.
LiveSpec ==
    /\ Init /\ [][NextL]_vars
    /\ WF_vars(HostInitStep)
    /\ WF_vars(HostBatchStep)
    /\ WF_vars(Resubmit)
    /\ SF_vars(Pull)

(***************************************************************************)
(* The resampler on its own: one resampler and one ring buffer, an input   *)
(* sequence handed over in chunks, the unconsumed rest handed over again,  *)
(* and a reader that frees slots of the ring                               *)
(***************************************************************************)
BenchRates == {<<2, 3>>, <<3, 2>>, <<2, 2>>}
BenchAdjusts == {<<49, 50>>, <<1, 1>>, <<51, 50>>}
BigCap == 4 * MaxInput + 1
BenchCaps == {2, 3, BigCap}
BenchInput(n) == [i \in 1..n |-> InputFrame(i)]

InitR ==
    /\ initialized = 0 /\ frame_rate = 0 /\ sample_rate_in = 0
    /\ sample_rate_out = 0 /\ buffer_seconds = 0
    /\ frame_count \in BenchCaps /\ buffer = Zeros(frame_count)
    /\ frame_in = 0 /\ frame_out = 0 /\ frame_filled = frame_count - 1
    /\ \E rates \in BenchRates :
           resampler = AudioResampler_init(rates[1], rates[2])
    /\ rate_adjust \in BenchAdjusts
    /\ \E n \in 1..MaxInput :
           /\ harness = [NoHarness EXCEPT !.input = BenchInput(n)]
           /\ frames = BenchInput(n)
    /\ audio_open = FALSE /\ audio_paused = TRUE /\ lock = "none"
    /\ hpc = "bench" /\ carry = <<>>
    /\ estimated_output = 0 /\ available = 0 /\ tries = 0 /\ ring = NullRing
    /\ result = NoResult /\ ret = 0
    /\ stream = <<>> /\ stream_len = 0 /\ stream_real = 0
    /\ crashed = FALSE
    /\ written = <<>> /\ delivered = <<>> /\ last_read = <<>> /\ submitted = 0

\* AudioResampler_resample on the first n frames not yet consumed
Bench_resample(n) ==
    /\ hpc = "bench" /\ ~crashed /\ n <= Len(frames)
    /\ Len(written) < 2 * MaxInput + 2
    /\ \E res \in {AudioResampler_resample(
                        resampler, RingWrapper(frame_count, frame_in, frame_out),
                        buffer, SubSeq(frames, 1, n), rate_adjust)} :
           /\ crashed' = (res.end \notin {"done", "full"})
           /\ resampler' = res.resampler
           /\ buffer' = res.store
           /\ frame_in' = res.rb.write_pos
           /\ ring' = res.rb
           /\ result' = [frames_written |-> res.frames_written,
                         frames_consumed |-> res.frames_consumed]
           /\ written' = written \o res.out
           /\ frames' = Drop(frames, res.frames_consumed)
           /\ harness' =
                [harness EXCEPT
                    !.calls = IF res.frames_written + res.frames_consumed > 0
                              THEN @ + 1 ELSE @,
                    !.cut = IF res.end = "full" THEN 1 ELSE @,
                    !.last = res.end,
                    !.count = n,
                    !.frames_written = @ + res.frames_written,
                    !.frames_consumed = @ + res.frames_consumed]
    /\ UNCHANGED <<initialized, frame_rate, sample_rate_in, sample_rate_out,
                   buffer_seconds, frame_count, frame_out, frame_filled,
                   dev_vars, hpc, carry, rate_adjust, estimated_output,
                   available, tries, ret, cb_vars, delivered, last_read,
                   submitted>>

\* the reader takes k frames out of the ring
Bench_read(k) ==
    /\ hpc = "bench" /\ ~crashed
    /\ k <= (frame_in - frame_out) % frame_count
    /\ \E st \in {CallbackDrain([out |-> <<>>, frame_out |-> frame_out,
                                 frame_filled |-> frame_filled, len |-> k,
                                 real |-> 0, end |-> "ok"],
                                buffer, frame_in, frame_count)} :
           /\ frame_out' = st.frame_out
           /\ frame_filled' = st.frame_filled
           /\ delivered' = delivered \o st.out
    /\ UNCHANGED <<initialized, frame_rate, sample_rate_in, sample_rate_out,
                   buffer_seconds, buffer, frame_count, frame_in, resampler,
                   dev_vars, host_vars, cb_vars, written, last_read, submitted,
                   crashed, harness>>

NextR ==
    \/ \E n \in 0..MaxInput : Bench_resample(n)
    \/ \E k \in 1..MaxPull : Bench_read(k)

SpecR == InitR /\ [][NextR]_vars

\* one call on the first n frames of the input, from the state after
\* AudioResampler_init, into an empty ring of cap slots
BenchRef(n, cap) ==
    AudioResampler_resample(
        AudioResampler_init(resampler.sample_rate_in, resampler.sample_rate_out),
        RingWrapper(cap, 0, 0), Zeros(cap), SubSeq(harness.input, 1, n),
        rate_adjust)

IsPrefix(s, t) == Len(s) <= Len(t) /\ s = SubSeq(t, 1, Len(s))

(***************************************************************************)
(* The resampler on its own, reset at a content discontinuity: the input   *)
(* in hand is dropped, AudioResampler_reset is called, and a new input     *)
(* follows; the ring keeps what it holds.  One discontinuity is followed.  *)
(***************************************************************************)
Bench_reset(m) ==
    /\ hpc = "bench" /\ ~crashed /\ harness.resets = 0
    /\ resampler' = AudioResampler_reset(resampler)
    /\ frames' = BenchInput(m)
    /\ harness' = [NoHarness EXCEPT !.input = BenchInput(m),
                                    !.resets = harness.resets + 1,
                                    !.base = Len(written),
                                    !.before = resampler,
                                    !.last = "reset"]
    /\ UNCHANGED <<initialized, frame_rate, sample_rate_in, sample_rate_out,
                   buffer_seconds, buffer, frame_count, frame_in, frame_out,
                   frame_filled, dev_vars, hpc, carry, rate_adjust,
                   estimated_output, available, tries, ring, result, ret,
                   cb_vars, hist_vars, crashed>>

\* a call of AudioResampler_resample on the bench
BenchCall == \E n \in 0..MaxInput : Bench_resample(n)

\* a call of AudioResampler_reset on the bench
BenchReset == \E m \in 1..MaxInput : Bench_reset(m)

NextReset ==
    \/ BenchCall
    \/ \E k \in 1..MaxPull : Bench_read(k)
    \/ BenchReset

SpecReset == InitR /\ [][NextReset]_vars

(***************************************************************************)
(* The resampler on its own, initialised with a rate that is not positive  *)
(***************************************************************************)
DegenerateRates == {<<0, 2>>, <<0, 3>>, <<2, 0>>, <<3, 0>>, <<0, 0>>, <<2, -1>>}

InitD ==
    /\ initialized = 0 /\ frame_rate = 0 /\ buffer_seconds = 0
    /\ \E rates \in DegenerateRates :
           sample_rate_in = rates[1] /\ sample_rate_out = rates[2]
    /\ frame_count \in BenchCaps /\ buffer = Zeros(frame_count)
    /\ frame_in = 0 /\ frame_out = 0 /\ frame_filled = frame_count - 1
    /\ resampler = NullResampler
    /\ rate_adjust \in BenchAdjusts
    /\ \E n \in 1..MaxInput :
           /\ harness = [NoHarness EXCEPT !.input = BenchInput(n)]
           /\ frames = BenchInput(n)
    /\ audio_open = FALSE /\ audio_paused = TRUE /\ lock = "none"
    /\ hpc = "bench_init" /\ carry = <<>>
    /\ estimated_output = 0 /\ available = 0 /\ tries = 0 /\ ring = NullRing
    /\ result = NoResult /\ ret = 0
    /\ stream = <<>> /\ stream_len = 0 /\ stream_real = 0
    /\ crashed = FALSE
    /\ written = <<>> /\ delivered = <<>> /\ last_read = <<>> /\ submitted = 0

\* AudioResampler_init(&resampler, rate_in, rate_out)
Bench_init ==
    /\ hpc = "bench_init"
    /\ resampler' = AudioResampler_init(sample_rate_in, sample_rate_out)
    /\ hpc' = "bench"
    /\ UNCHANGED <<initialized, frame_rate, sample_rate_in, sample_rate_out,
                   buffer_seconds, buffer, frame_count, frame_in, frame_out,
                   frame_filled, dev_vars, frames, carry, rate_adjust,
                   estimated_output, available, tries, ring, result, ret,
                   cb_vars, hist_vars, crashed, harness>>

\* AudioResampler_resample with a NULL buffer (dry run) on the first n frames
\* not yet consumed; a call whose loop does not end leaves the bench hung
Bench_dry(n) ==
    /\ hpc = "bench" /\ ~crashed /\ n <= Len(frames)
    /\ Len(written) < 2 * MaxInput + 2
    /\ \E res \in {AudioResampler_resample(resampler, NullRing, NULL,
                                           SubSeq(frames, 1, n), rate_adjust)} :
           /\ hpc' = IF res.end = "spin" THEN "bench_spin" ELSE "bench"
           /\ resampler' = res.resampler
           /\ ring' = res.rb
           /\ result' = [frames_written |-> res.frames_written,
                         frames_consumed |-> res.frames_consumed]
           /\ frames' = Drop(frames, res.frames_consumed)
           /\ harness' =
                [harness EXCEPT
                    !.calls = IF res.frames_written + res.frames_consumed > 0
                              THEN @ + 1 ELSE @,
                    !.last = res.end,
                    !.count = n,
                    !.frames_written = @ + res.frames_written,
                    !.frames_consumed = @ + res.frames_consumed]
    /\ UNCHANGED <<initialized, frame_rate, sample_rate_in, sample_rate_out,
                   buffer_seconds, buffer, frame_count, frame_in, frame_out,
                   frame_filled, dev_vars, carry, rate_adjust,
                   estimated_output, available, tries, ret, cb_vars,
                   hist_vars, crashed>>

NextD ==
    \/ Bench_init
    \/ \E n \in 0..MaxInput : Bench_resample(n)
    \/ \E n \in 0..MaxInput : Bench_dry(n)
    \/ \E k \in 1..MaxPull : Bench_read(k)

SpecD == InitD /\ [][NextD]_vars

(***************************************************************************)
(* SND_calculateRateAdjust on its own: a capacity and two cursors, one     *)
(* application                                                             *)
(***************************************************************************)
InitAdj ==
    /\ initialized = 1 /\ frame_rate = 0 /\ sample_rate_in = 0
    /\ sample_rate_out = 0 /\ buffer_seconds = 0
    /\ frame_count \in 0..MaxCap
    /\ buffer = Zeros(frame_count)
    /\ frame_in \in 0..Max(frame_count - 1, 0)
    /\ frame_out \in 0..Max(frame_count - 1, 0)
    /\ frame_filled = 0
    /\ resampler = NullResampler
    /\ audio_open = FALSE /\ audio_paused = TRUE /\ lock = "none"
    /\ hpc = "adj" /\ frames = <<>> /\ carry = <<>> /\ rate_adjust = NoAdjust
    /\ estimated_output = 0 /\ available = 0 /\ tries = 0 /\ ring = NullRing
    /\ result = NoResult /\ ret = 0
    /\ stream = <<>> /\ stream_len = 0 /\ stream_real = 0
    /\ crashed = FALSE
    /\ written = <<>> /\ delivered = <<>> /\ last_read = <<>> /\ submitted = 0
    /\ harness = NoHarness

\* float ratio_adjust = SND_calculateRateAdjust()
Adj_apply ==
    /\ hpc = "adj"
    /\ rate_adjust' = SND_calculateRateAdjust(frame_count, frame_in, frame_out)
    /\ hpc' = "adj_done"
    /\ UNCHANGED <<snd_vars, dev_vars, frames, carry, estimated_output,
                   available, tries, ring, result, ret, cb_vars, hist_vars,
                   crashed, harness>>

NextAdj == Adj_apply

SpecAdj == InitAdj /\ [][NextAdj]_vars

(***************************************************************************)
(* SND_getBufferOccupancy on its own: a capacity and two cursors           *)
(***************************************************************************)
\* the capacities: the small ones and one of a hundred frames
OccCaps == (0..MaxCap) \cup {100}

InitOcc ==
    /\ initialized = 1 /\ frame_rate = 0 /\ sample_rate_in = 0
    /\ sample_rate_out = 0 /\ buffer_seconds = 0
    /\ frame_count \in OccCaps
    /\ buffer = Zeros(frame_count)
    /\ frame_in \in 0..Max(frame_count - 1, 0)
    /\ frame_out \in 0..Max(frame_count - 1, 0)
    /\ frame_filled = 0
    /\ resampler = NullResampler
    /\ audio_open = FALSE /\ audio_paused = TRUE /\ lock = "none"
    /\ hpc = "idle" /\ frames = <<>> /\ carry = <<>> /\ rate_adjust = NoAdjust
    /\ estimated_output = 0 /\ available = 0 /\ tries = 0 /\ ring = NullRing
    /\ result = NoResult /\ ret \in {0, 100}
    /\ stream = <<>> /\ stream_len = 0 /\ stream_real = 0
    /\ crashed = FALSE
    /\ written = <<>> /\ delivered = <<>> /\ last_read = <<>> /\ submitted = 0
    /\ harness = NoHarness

NextOcc == SND_getBufferOccupancy

SpecOcc == InitOcc /\ [][NextOcc]_vars

(***************************************************************************)
(* lerp_s16 on its own: two samples and a phase, one application           *)
(***************************************************************************)
LerpSamples == {-32768, -20000, -1, 0, 1, 100, 20000, 32767}
LerpFracs == {0, 1, 256, 32768, 40000, FRAC_ONE - 1}

InitLerp ==
    /\ initialized = 0 /\ frame_rate = 0 /\ sample_rate_in = 0
    /\ sample_rate_out = 0 /\ buffer_seconds = 0 /\ buffer = NULL
    /\ frame_count = 0 /\ frame_in = 0 /\ frame_out = 0 /\ frame_filled = 0
    /\ resampler = NullResampler
    /\ audio_open = FALSE /\ audio_paused = TRUE /\ lock = "none"
    /\ hpc = "lerp" /\ frames = <<>> /\ carry = <<>> /\ rate_adjust = NoAdjust
    /\ estimated_output = 0 /\ available = 0 /\ tries = 0 /\ ring = NullRing
    /\ result = NoResult /\ ret = 0
    /\ stream = <<>> /\ stream_len = 0 /\ stream_real = 0
    /\ crashed = FALSE
    /\ written = <<>> /\ delivered = <<>> /\ last_read = <<>> /\ submitted = 0
    /\ \E a \in LerpSamples, b \in LerpSamples, frac \in LerpFracs :
           harness = [NoHarness EXCEPT !.input = <<a, b, frac>>]

\* out = lerp_s16(a, b, frac).  When the int32 product overflows the
\* behaviour is undefined: the value is the wrapped one or any other sample.
Lerp_apply ==
    /\ hpc = "lerp"
    /\ LET a == harness.input[1]
           b == harness.input[2]
           frac == harness.input[3]
       IN  IF LerpOverflows(a, b, frac)
           THEN /\ ret' \in {lerp_s16(a, b, frac)} \cup LerpSamples
                /\ harness' = [harness EXCEPT !.last = "overflow"]
           ELSE /\ ret' = lerp_s16(a, b, frac)
                /\ harness' = [harness EXCEPT !.last = "ok"]
    /\ hpc' = "lerp_done"
    /\ UNCHANGED <<snd_vars, dev_vars, frames, carry, rate_adjust,
                   estimated_output, available, tries, ring, result, cb_vars,
                   hist_vars, crashed>>

NextLerp == Lerp_apply

SpecLerp == InitLerp /\ [][NextLerp]_vars

(***************************************************************************)
(* Whole seconds of input: k * Rin frames handed to the resampler in        *)
(* batches, each call a dry run (buffer NULL), in which no full ring stops  *)
(* it; the loops of a call run in steps of at most LoopFuel passes          *)
(***************************************************************************)
SecBatch == 1000
MaxSeconds == 2
\* the rates of the two scenarios, run for one second
RealRates == {<<44100, 48000>>, <<48000, 44100>>}
\* low rates, run for 1..MaxSeconds seconds
LowRates == {<<1, 1>>, <<2, 2>>, <<2, 3>>, <<3, 2>>, <<1, 3>>, <<3, 1>>}
\* the i-th input frame: left = right = (int16_t)i
SecFrame(i) == <<ToInt16(i), ToInt16(i)>>

InitSec ==
    /\ initialized = 0 /\ frame_rate = 0 /\ buffer_seconds = 0
    /\ \E rates \in RealRates \cup LowRates, k \in 1..MaxSeconds :
           /\ rates \in RealRates => k = 1
           /\ sample_rate_in = rates[1] /\ sample_rate_out = rates[2]
           /\ harness = [NoHarness EXCEPT !.seconds = k]
    /\ buffer = NULL /\ frame_count = 0
    /\ frame_in = 0 /\ frame_out = 0 /\ frame_filled = 0
    /\ resampler = NullResampler
    /\ rate_adjust = NoAdjust
    /\ audio_open = FALSE /\ audio_paused = TRUE /\ lock = "none"
    /\ hpc = "sec_init" /\ frames = <<>> /\ carry = <<>>
    /\ estimated_output = 0 /\ available = 0 /\ tries = 0 /\ ring = NullRing
    /\ result = NoResult /\ ret = 0
    /\ stream = <<>> /\ stream_len = 0 /\ stream_real = 0
    /\ crashed = FALSE
    /\ written = <<>> /\ delivered = <<>> /\ last_read = <<>> /\ submitted = 0

\* the frames of the whole input
SecTotal == harness.seconds * sample_rate_in

\* AudioResampler_init(&resampler, rate_in, rate_out)
Sec_init ==
    /\ hpc = "sec_init"
    /\ resampler' = AudioResampler_init(sample_rate_in, sample_rate_out)
    /\ hpc' = "sec"
    /\ UNCHANGED <<initialized, frame_rate, sample_rate_in, sample_rate_out,
                   buffer_seconds, buffer, frame_count, frame_in, frame_out,
                   frame_filled, dev_vars, frames, carry, rate_adjust,
                   estimated_output, available, tries, ring, result, ret,
                   cb_vars, hist_vars, crashed, harness>>

\* AudioResampler_resample(&resampler, NULL, frames, n, 1.0f) is entered with
\* the next batch of the input: result = {0, 0}, the locals from the resampler
Sec_call ==
    /\ hpc = "sec" /\ submitted < SecTotal
    /\ LET n == Min(SecBatch, SecTotal - submitted) IN
        /\ submitted' = submitted + n
        /\ harness' =
             [harness EXCEPT
                !.count = n,
                !.calls = @ + 1,
                !.st = [input_idx |-> 0, frac_pos |-> resampler.frac_pos,
                        prev |-> resampler.prev_frame,
                        has_prev |-> resampler.has_prev, rb |-> NullRing,
                        store |-> NULL, frames_written |-> 0,
                        frames_consumed |-> 0, out |-> <<>>, end |-> "run"]]
    /\ hpc' = "sec_loop"
    /\ UNCHANGED <<snd_vars, dev_vars, frames, carry, rate_adjust,
                   estimated_output, available, tries, ring, result, ret,
                   cb_vars, written, delivered, last_read, crashed>>

\* the frames of the call in progress: the last harness.count frames handed
\* over, the input being frame 0, frame 1, ...
SecFrames ==
    [i \in 1..harness.count |-> SecFrame(submitted - harness.count + i - 1)]

\* the loops run on, at most LoopFuel passes at a step; the frames of a dry
\* run go nowhere
Sec_pass ==
    /\ hpc = "sec_loop" /\ harness.st.input_idx < harness.count
    /\ harness' =
         [harness EXCEPT
            !.st = [ResampleLoop(harness.st, SecFrames,
                                 AdjustedStep(resampler.frac_step, rate_adjust),
                                 LoopFuel)
                    EXCEPT !.out = <<>>, !.end = "run"]]
    /\ UNCHANGED <<snd_vars, dev_vars, host_vars, cb_vars, hist_vars, crashed>>

\* done: the state is saved and the result returned
Sec_done ==
    /\ hpc = "sec_loop" /\ harness.st.input_idx >= harness.count
    /\ resampler' = SaveState(resampler, harness.st)
    /\ result' = [frames_written |-> harness.st.frames_written,
                  frames_consumed |-> harness.st.frames_consumed]
    /\ harness' =
         [harness EXCEPT
            !.st = <<>>,
            !.last = "done",
            !.frames_written = @ + harness.st.frames_written,
            !.frames_consumed = @ + harness.st.frames_consumed]
    /\ hpc' = "sec"
    /\ UNCHANGED <<initialized, frame_rate, sample_rate_in, sample_rate_out,
                   buffer_seconds, buffer, frame_count, frame_in, frame_out,
                   frame_filled, dev_vars, frames, carry, rate_adjust,
                   estimated_output, available, tries, ring, ret, cb_vars,
                   hist_vars, crashed>>

NextSec == Sec_init \/ Sec_call \/ Sec_pass \/ Sec_done

SpecSec == InitSec /\ [][NextSec]_vars

(***************************************************************************)
(* Properties                                                              *)
(***************************************************************************)

\* no locked section of the host is in progress
Unlocked == lock = "none"

\* frames stored and not yet read, by the history
UnreadCount == Len(written) - Len(delivered)

\* the unread slots of the store, oldest first, by the cursors
UnreadSlots ==
    [i \in 1..((frame_in - frame_out) % frame_count) |->
        buffer[((frame_out + i - 1) % frame_count) + 1]]

C2_OccupancyMatchesUnread ==
    (Unlocked /\ frame_count > 0) =>
        /\ (frame_in - frame_out) % frame_count = UnreadCount
        /\ SND_getBufferFillLevel(frame_count, frame_in, frame_out)[1] = UnreadCount
        /\ UnreadCount <= frame_count - 1

\* C2 witness: the buffer is full (capacity - 1 unread frames) with the write
\* cursor wrapped behind the read cursor.
C2_Witness ==
    /\ Unlocked /\ frame_count >= 2
    /\ frame_in < frame_out
    /\ UnreadCount = frame_count - 1

C10_CursorsInRange ==
    frame_count > 0 =>
        /\ frame_in \in 0..(frame_count - 1)
        /\ frame_out \in 0..(frame_count - 1)

\* C10 witness: both cursors have gone round the ring, the read cursor being
\* back at slot 0.
C10_Witness ==
    /\ frame_count >= 2
    /\ Len(delivered) >= frame_count
    /\ frame_out = 0 /\ frame_in = 1

\* C4: every callback stores all the frames it was asked for in its stream.
C4_CallbackFillsStream == Len(stream) = stream_len

BatchPcs == {"bs_wait", "bs_sleep", "bs_commit"}
ResizePcs == {"resize", "resize_lock", "resize_alloc"}

\* steps left to a call of SND_batchSamples, at most
CallRank ==
    CASE hpc = "bs_wait" -> 2 * (MAX_TRIES - tries) + 2
      [] hpc = "bs_sleep" -> 2 * (MAX_TRIES - tries) + 3
      [] hpc = "bs_commit" -> 1
      [] OTHER -> 0

\* On an engine whose store is allocated, SND_batchSamples sleeps at most
\* MAX_TRIES times and holds no lock while it sleeps, so that a callback can
\* run in every sleep; the call can always take its next step, whatever the
\* audio thread does or does not do, and every step brings it nearer to its
\* return, which comes after at most 2 * MAX_TRIES + 2 steps.
SizedEngineCallReturns ==
    /\ [](tries \in 0..MAX_TRIES)
    /\ [](hpc = "bs_sleep" => (lock = "none" /\ tries \in 1..MAX_TRIES))
    /\ [](hpc = "bs_sleep" /\ buffer # NULL /\ audio_open /\ ~audio_paused
             => ENABLED AudioCallback(1))
    /\ []((hpc \in BatchPcs /\ buffer # NULL) => ENABLED HostBatchStep)
    /\ [][(hpc \in BatchPcs /\ buffer # NULL /\ hpc' # hpc)
             => (CallRank' < CallRank /\ CallRank' >= 0)]_vars
    /\ [][(hpc \in BatchPcs /\ buffer # NULL)
             => (hpc' \in BatchPcs \cup {"idle"} /\ buffer' # NULL)]_vars

\* a call has used up all its retries with the buffer still short of room and
\* has gone on to resample
RetriesExhausted ==
    /\ hpc = "bs_commit" /\ tries = MAX_TRIES
    /\ available < estimated_output

\* C5: SND_batchSamples sleeps at most MAX_TRIES times, holds no lock while it
\* sleeps, and then always returns: a call in progress can always take its
\* next step, every step brings it nearer to its return, and no step ends it
\* in any other way than by returning.
C5_BoundedRetriesThenReturn ==
    /\ [](tries \in 0..MAX_TRIES)
    /\ [](hpc = "bs_sleep" => (lock = "none" /\ tries \in 1..MAX_TRIES))
    /\ [][(hpc \in BatchPcs /\ hpc' # hpc)
             => (CallRank' < CallRank /\ CallRank' >= 0)]_vars
    /\ [][(hpc \in BatchPcs)
             => (hpc' \in BatchPcs \cup {"idle"} /\ ~crashed')]_vars

\* C6: every step of SND_resizeBuffer and SND_batchSamples that changes the
\* capacity, a cursor or the store is taken with the lock held.
C6_WritesUnderLock ==
    [][(hpc \in (BatchPcs \cup ResizePcs) /\ hpc' # hpc
          /\ <<frame_count, frame_in, frame_out, frame_filled, buffer>>'
               # <<frame_count, frame_in, frame_out, frame_filled, buffer>>)
        => lock = "host"]_vars

\* C7: when calls are cut short by a full ring and the unconsumed frames are
\* handed over again, no input frame is skipped or counted twice, the frames
\* written so far are the first frames of the output of one call on the whole
\* input into a ring that never fills, and all of that output with the same
\* final state once the input is consumed; after a call cut short, frac_pos,
\* prev and has_prev are those of the point of stopping: the last frame
\* consumed is prev, the frame in hand is not counted, and the state is that
\* of one call stopped after the same number of frames written.
C7_FullBufferResume ==
    hpc = "bench" =>
        LET all == BenchRef(Len(harness.input), BigCap)
            stop == BenchRef(Len(harness.input), Len(written) + 1)
        IN  /\ ~crashed /\ all.end = "done"
            /\ frames = Drop(harness.input, harness.frames_consumed)
            /\ harness.frames_written = Len(written)
            /\ IsPrefix(written, all.out)
            /\ frames = <<>> =>
                 (written = all.out /\ resampler = all.resampler)
            /\ harness.last = "full" =>
                 /\ frames # <<>>
                 /\ resampler.has_prev = 1
                 /\ resampler.frac_pos < FRAC_ONE
                 /\ resampler.prev_frame = harness.input[harness.frames_consumed]
                 /\ stop.end = "full"
                 /\ resampler = stop.resampler
                 /\ harness.frames_consumed = stop.frames_consumed

\* C7 witness: a call was cut short between two input frames with the phase
\* not zero, the rest was handed over again, and the whole input is consumed.
C7_Witness ==
    /\ hpc = "bench" /\ harness.cut = 1 /\ frames = <<>>
    /\ harness.last = "done" /\ harness.calls >= 3
    /\ Len(harness.input) >= 3 /\ Len(written) > frame_count
    /\ resampler.sample_rate_in # resampler.sample_rate_out

\* C8: as long as no call was cut short by a full ring, the input consumed so
\* far in any number of calls has given the output frames, the totals of
\* frames written and consumed and the resampler state of one call on the
\* same frames.
C8_ChunkingInvariance ==
    (hpc = "bench" /\ harness.cut = 0) =>
        LET ref == BenchRef(harness.frames_consumed, BigCap)
        IN  /\ ~crashed /\ ref.end = "done"
            /\ written = ref.out
            /\ harness.frames_written = ref.frames_written
            /\ harness.frames_consumed = ref.frames_consumed
            /\ resampler = ref.resampler

\* C8 witness: three frames went through in three calls, none cut short, at
\* rates that differ, with the phase not zero at the end.
C8_Witness ==
    /\ hpc = "bench" /\ harness.cut = 0 /\ frames = <<>>
    /\ harness.calls >= 3 /\ Len(harness.input) >= 3
    /\ resampler.frac_pos # 0 /\ Len(written) >= 3

\* frames handed to SND_batchSamples and not yet consumed
Pending == carry # <<>> \/ frames # <<>>

\* the host has nothing left over and no call in progress
AllConsumed == hpc = "idle" /\ carry = <<>> /\ frames = <<>>

\* C9: with a ring of at least 2 slots, a callback that keeps being called
\* and a host that hands the unconsumed frames over again, every frame handed
\* over is consumed in the end; a call that uses up its retries consumes fewer
\* frames, none of them twice and none left out, and leaves the cursors, the
\* ring and the resampler as the next call needs them.
C9_EveryFrameConsumed ==
    /\ ((frame_count >= 2 /\ Pending) ~> AllConsumed)
    /\ [](hpc = "idle" =>
            carry = [i \in 1..Len(carry) |->
                        InputFrame(submitted - Len(carry) + i)])
    /\ []((hpc = "bs_commit" /\ tries = MAX_TRIES) =>
            /\ result.frames_consumed <= Len(frames)
            /\ ring.write_pos \in 0..(frame_count - 1)
            /\ ring.read_pos = frame_out
            /\ resampler.frac_pos < 2 * FRAC_ONE
            /\ Len(written) - Len(delivered)
                 = (ring.write_pos - frame_out) % frame_count)

\* C9 witness: on a ring of at least 2 slots that has wrapped, a call used up
\* its retries and consumed fewer frames than it was given, after earlier
\* frames had been consumed.
C9_Witness ==
    /\ hpc = "bs_commit" /\ tries = MAX_TRIES /\ frame_count >= 2
    /\ result.frames_consumed < Len(frames)
    /\ submitted > Len(frames) /\ Len(written) > frame_count

\* the step of the calls of the bench
BenchStep == AdjustedStep(resampler.frac_step, rate_adjust)

\* C11 as stated: between calls the saved frac_pos is in [0, FRAC_ONE).
C11_FracPosBelowOne ==
    hpc = "bench" => resampler.frac_pos \in 0..(FRAC_ONE - 1)

\* C11 as amended: between calls the saved frac_pos is at least 0 and below
\* the larger of FRAC_ONE and the adjusted step; it is below FRAC_ONE after a
\* call cut short by a full ring and whenever the adjusted step is at most
\* FRAC_ONE.
C11_FracPosBounded ==
    hpc = "bench" =>
        /\ resampler.frac_pos >= 0
        /\ resampler.frac_pos < (IF BenchStep > FRAC_ONE THEN BenchStep
                                 ELSE FRAC_ONE)
        /\ harness.last = "full" => resampler.frac_pos < FRAC_ONE

\* C11 witness: downsampling, a call was cut short, the input was handed over
\* again, and the last call ran to its end with frac_pos at FRAC_ONE or more.
C11_Witness ==
    /\ hpc = "bench" /\ harness.cut = 1 /\ harness.last = "done"
    /\ resampler.sample_rate_in > resampler.sample_rate_out
    /\ resampler.frac_pos >= FRAC_ONE

\* the hard reset of the cursors: the memset of SND_init and the cursor
\* assignments of SND_resizeBuffer
CursorReset ==
    \/ \E sr \in InRates, fr \in FrameRates, freq \in OutRates :
           SND_init_begin(sr, fr, freq)
    \/ SND_resizeBuffer_alloc(TRUE)

\* C12 as stated: only the callback writes frame_filled, the index of the
\* last frame read; every step of the host thread leaves it unchanged.
C12_OnlyCallbackWritesLastRead ==
    [][frame_filled' # frame_filled => Pull]_vars

\* C12 as amended: frame_filled is written by the callback and by the hard
\* reset of SND_init and SND_resizeBuffer, the latter under the lock;
\* SND_batchSamples, SND_getBufferOccupancy and SND_quit leave it unchanged,
\* and SND_batchSamples never stores into the slot it names.
C12_LastReadWrittenByCallbackOrReset ==
    /\ [][frame_filled' # frame_filled => (Pull \/ CursorReset)]_vars
    /\ [][(frame_filled' # frame_filled /\ SND_resizeBuffer_alloc(TRUE))
             => lock = "host"]_vars
    /\ [][(hpc \in BatchPcs /\ hpc' # hpc /\ buffer # NULL)
             => buffer'[frame_filled + 1] = buffer[frame_filled + 1]]_vars

\* C12 witness: the callback has read frames and set frame_filled, and a call
\* of SND_batchSamples has then stored frames up to the slot before it.
C12_Witness ==
    /\ hpc = "bs_commit" /\ result.frames_written > 0
    /\ Len(delivered) > 0 /\ frame_filled # frame_count - 1
    /\ ring.write_pos = frame_filled

\* C13: for all 16-bit samples a and b and every phase below FRAC_ONE,
\* lerp_s16 computes without leaving the signed 32-bit range, and the sample
\* it returns lies between a and b inclusive.
C13_LerpInRange ==
    hpc = "lerp_done" =>
        /\ harness.last = "ok"
        /\ Min(harness.input[1], harness.input[2]) <= ret
        /\ ret <= Max(harness.input[1], harness.input[2])

\* C14: when the allocation of SND_resizeBuffer fails the resize is abandoned:
\* on its return without a store the capacity and the cursors are those of
\* before the call, which are the zeros of SND_init's memset, and no later
\* call of SND_batchSamples or of the callback on the open device goes
\* outside the store.
C14_FailedResizeAbandoned ==
    /\ (hpc = "init_end" /\ buffer = NULL) =>
           (frame_count = 0 /\ frame_in = 0 /\ frame_out = 0 /\ frame_filled = 0)
    /\ ~(crashed /\ audio_open)

\* C15: a resampler initialised with an input or output rate that is zero
\* or negative steps by FRAC_ONE, and its resample calls neither fault nor
\* hang nor write output without consuming input.
C15_DegenerateRatePassthrough ==
    /\ hpc \in {"bench", "bench_spin"} => resampler.frac_step = FRAC_ONE
    /\ hpc # "bench_spin" /\ ~crashed
    /\ result.frames_written >= 3 => result.frames_consumed >= 1

\* the state of the engine's lifecycle: not yet initialised; initialised or
\* being initialised, with the device open; shut down by SND_quit
Lifecycle ==
    IF audio_open THEN "Ready"
    ELSE IF initialized = 0 THEN "Uninitialized"
    ELSE "Shutdown"

LifecycleSteps ==
    {<<"Uninitialized", "Uninitialized">>, <<"Uninitialized", "Ready">>,
     <<"Ready", "Ready">>, <<"Ready", "Shutdown">>, <<"Shutdown", "Shutdown">>}

\* C16: the engine only moves from Uninitialized to Ready to Shutdown, and
\* Shutdown is terminal: once shut down no operation brings the engine back
\* to Ready, and no call goes through the released store.
C16_ShutdownTerminal ==
    [][/\ <<Lifecycle, Lifecycle'>> \in LifecycleSteps
       /\ Lifecycle = "Shutdown" => ~crashed']_vars

QuitPcs == {"quit_close", "quit_free"}

\* a callback of any length
AnyCallback == \E len \in 0..MaxPull : AudioCallback(len)

\* C17: SND_quit pauses the device before anything else and releases the
\* store only with the device paused and closed, so that, the host thread
\* being inside SND_quit, no callback runs from the pause on and none runs
\* against the released store.
C17_PauseBeforeFree ==
    /\ [](hpc \in QuitPcs => audio_paused)
    /\ [][(hpc = "quit_free" /\ hpc' # hpc) =>
             (audio_paused /\ ~audio_open /\ buffer' = NULL)]_vars
    /\ [][AnyCallback => (hpc \notin QuitPcs /\ Lifecycle = "Ready")]_vars
    /\ [](crashed => hpc \notin QuitPcs)

\* C17 witness: SND_quit has released a store that held frames the callback
\* had not read yet, after callbacks had run.
C17_Witness ==
    /\ hpc = "idle" /\ Lifecycle = "Shutdown" /\ buffer = NULL
    /\ Len(delivered) > 0 /\ Len(written) > Len(delivered)
    /\ ~crashed

\* frames in the ring by the cursors, and the capacity the fill is taken of
AdjFilled == IF frame_count = 0 THEN 0 ELSE (frame_in - frame_out) % frame_count
AdjCount == IF frame_count = 0 THEN 1 ELSE frame_count

\* C18: with fill = AdjFilled / AdjCount, the adjustment is 1 for a fill in
\* [0.30, 0.70], 0.98 + (fill / 0.30) * 0.02 below 0.30 and
\* 1 + ((fill - 0.70) / 0.30) * 0.02 above 0.70, and is within [0.98, 1.02]
\* for every capacity and every pair of cursors.
C18_AdjustmentLaw ==
    hpc = "adj_done" =>
        LET f == AdjFilled
            c == AdjCount
            num == rate_adjust[1]
            den == rate_adjust[2]
        IN  /\ den > 0
            /\ (3 * c <= 10 * f /\ 10 * f <= 7 * c) => num = den
            /\ 10 * f < 3 * c => num * 750 * c = den * (735 * c + 50 * f)
            /\ 10 * f > 7 * c => num * 150 * c = den * (143 * c + 10 * f)
            /\ f = 0 => 50 * num = 49 * den
            /\ 2 * f = c => num = den
            /\ 49 * den <= 50 * num /\ 50 * num <= 51 * den

\* C18 witness: the cursors have wrapped and the fill is above 0.70, at the
\* capacity whose fills include 0.30 and 0.70.
C18_Witness ==
    /\ hpc = "adj_done" /\ frame_count = 10
    /\ frame_in < frame_out /\ 10 * AdjFilled > 7 * AdjCount
    /\ rate_adjust[1] > rate_adjust[2]

\* equal rates, no adjustment, and no call cut short by a full ring
Passthrough ==
    /\ hpc = "bench" /\ harness.cut = 0 /\ rate_adjust = <<1, 1>>
    /\ resampler.sample_rate_in = resampler.sample_rate_out

WrittenWith(adj, rb, store) ==
    AudioResampler_resample(resampler, rb, store, frames, adj).frames_written

\* the same, into an empty ring that never fills
WrittenFree(adj) == WrittenWith(adj, RingWrapper(BigCap, 0, 0), Zeros(BigCap))

\* the same, into the ring as it is
WrittenHere(adj) ==
    WrittenWith(adj, RingWrapper(frame_count, frame_in, frame_out), buffer)

\* C20 as stated: from the same state and for the same batch, an adjustment
\* above 1.0 gives strictly fewer frames written than 1.0, one below 1.0
\* strictly more.
C20_StrictlyMonotoneSpeed ==
    (hpc = "bench" /\ frames # <<>>) =>
        /\ WrittenFree(<<51, 50>>) < WrittenFree(<<1, 1>>)
        /\ WrittenFree(<<49, 50>>) > WrittenFree(<<1, 1>>)

\* C20 as amended: an adjustment above 1.0 never gives more frames written
\* than 1.0 and one below 1.0 never fewer, with room in the ring or without.
C20_MonotoneSpeed ==
    hpc = "bench" =>
        /\ WrittenFree(<<51, 50>>) <= WrittenFree(<<1, 1>>)
        /\ WrittenFree(<<49, 50>>) >= WrittenFree(<<1, 1>>)
        /\ WrittenHere(<<51, 50>>) <= WrittenHere(<<1, 1>>)
        /\ WrittenHere(<<49, 50>>) >= WrittenHere(<<1, 1>>)

\* C20 witness: a batch long enough for the adjustment above 1.0 to cost a
\* frame, handed to a resampler that has already consumed frames.
C20_Witness ==
    /\ hpc = "bench" /\ harness.frames_consumed >= 1 /\ frames # <<>>
    /\ WrittenFree(<<51, 50>>) < WrittenFree(<<1, 1>>)
    /\ WrittenFree(<<49, 50>>) >= WrittenFree(<<1, 1>>)

\* x lies strictly between a and b
StrictlyBetween(x, a, b) == (a < x /\ x < b) \/ (b < x /\ x < a)

\* a frame was written whose two samples lie strictly between those of the
\* k-th and the (k+1)-th input frame
PairInterpolated(k) ==
    \E i \in 1..Len(written) :
        /\ StrictlyBetween(written[i][1], harness.input[k][1],
                           harness.input[k + 1][1])
        /\ StrictlyBetween(written[i][2], harness.input[k][2],
                           harness.input[k + 1][2])

\* C21 as stated: for every two consecutive input frames, distinct, that the
\* resampler has consumed, a frame was written that lies strictly between
\* them.
C21_EveryPairInterpolated ==
    hpc = "bench" =>
        \A k \in 1..(harness.frames_consumed - 1) : PairInterpolated(k)

\* C21 as amended: when the adjusted step is positive and below FRAC_ONE
\* (more frames out than in), for every two consecutive input frames consumed,
\* whose samples differ by 100 or more, a frame was written that lies strictly
\* between them; at a step of FRAC_ONE the frames written are the input
\* frames themselves.
C21_UpsampledPairInterpolated ==
    /\ (hpc = "bench" /\ BenchStep > 0 /\ BenchStep < FRAC_ONE) =>
          \A k \in 1..(harness.frames_consumed - 1) : PairInterpolated(k)
    /\ (hpc = "bench" /\ BenchStep = FRAC_ONE) =>
          \A i \in 1..Len(written) : written[i] = harness.input[i]

\* C21 witness: at 2 to 3 Hz three frames were consumed, with calls cut short
\* by a full ring on the way, and both pairs have a frame between them.
C21_Witness ==
    /\ hpc = "bench" /\ BenchStep < FRAC_ONE /\ harness.frames_consumed = 3
    /\ resampler.sample_rate_in < resampler.sample_rate_out
    /\ harness.cut = 1
    /\ PairInterpolated(1) /\ PairInterpolated(2)

\* the whole input has gone through
SecOver == hpc = "sec" /\ submitted = SecTotal

\* a and b differ by at most d
Within(a, b, d) == a - b <= d /\ b - a <= d

\* C22: one second of input at 44100 -> 48000 Hz and at 48000 -> 44100 Hz, in
\* batches of 1000 with no adjustment, is consumed whole, every call consuming
\* its batch, and gives one second of output to within 10 frames.
C22_OneSecondScenarios ==
    /\ (SecOver /\ <<sample_rate_in, sample_rate_out>> \in RealRates) =>
          /\ harness.frames_consumed = sample_rate_in
          /\ Within(harness.frames_written, sample_rate_out, 10)
    /\ (hpc = "sec" /\ <<sample_rate_in, sample_rate_out>> \in RealRates) =>
          /\ result.frames_consumed = harness.count
          /\ harness.frames_consumed = submitted

\* C22 witness: the second of 44100 frames has gone through in 45 calls.
C22_Witness ==
    /\ SecOver /\ sample_rate_in = 44100 /\ sample_rate_out = 48000
    /\ harness.calls = 45 /\ harness.count = 100
    /\ harness.frames_consumed = 44100 /\ harness.frames_written > 47000

\* the least integer not below a / b, for a >= 0 and b > 0
CeilDiv(a, b) == (a + b - 1) \div b

\* the frames of k seconds of output
SecOutput == harness.seconds * sample_rate_out

\* C23 as stated: k seconds of input at any positive rates give k seconds of
\* output to within 0.2 %.
C23_RateWithinTolerance ==
    SecOver =>
        /\ 1000 * (harness.frames_written - SecOutput) <= 2 * SecOutput
        /\ 1000 * (SecOutput - harness.frames_written) <= 2 * SecOutput

\* C23 as amended: k seconds of input are consumed whole; the first frame
\* only primes the resampler, so the frames written are never fewer than the
\* output of all frames but one, (k * Rin - 1) * Rout / Rin; at low rates
\* they are the multiples of the truncated step that fit,
\* ceil((k * Rin - 1) * 2^16 / step); at 44100 and 48000 Hz they are within
\* 0.2 % of k * Rout.
C23_RateWithinOneInputFrame ==
    SecOver =>
        /\ harness.frames_consumed = SecTotal
        /\ resampler.frac_step > 0
        /\ harness.frames_written * sample_rate_in
             >= (SecTotal - 1) * sample_rate_out
        /\ <<sample_rate_in, sample_rate_out>> \in LowRates =>
             harness.frames_written
               = CeilDiv((SecTotal - 1) * FRAC_ONE, resampler.frac_step)
        /\ <<sample_rate_in, sample_rate_out>> \in RealRates =>
             /\ 1000 * (harness.frames_written - SecOutput) <= 2 * SecOutput
             /\ 1000 * (SecOutput - harness.frames_written) <= 2 * SecOutput

\* C23 witness: two seconds at 2 -> 3 Hz have gone through and gave 5 frames
\* for the 6 of two seconds of output.
C23_Witness ==
    /\ SecOver /\ sample_rate_in = 2 /\ sample_rate_out = 3
    /\ harness.seconds = 2 /\ harness.frames_consumed = 4
    /\ harness.frames_written = 5

\* C24: has_prev is false from AudioResampler_init or AudioResampler_reset
\* until the first input frame is consumed and true from then on; a call
\* given that frame alone consumes it and writes nothing; no call of
\* AudioResampler_resample, run to its end, empty or cut short by a full
\* ring, sets has_prev back to false.
C24_HasPrevSetOnce ==
    /\ [](hpc = "bench" =>
            /\ resampler.has_prev \in {0, 1}
            /\ resampler.has_prev = 1 <=> harness.frames_consumed >= 1)
    /\ [][(resampler.has_prev = 1 /\ resampler'.has_prev = 0)
            => (BenchReset /\ ~BenchCall)]_vars
    /\ [][(resampler.has_prev = 0 /\ resampler'.has_prev = 1) =>
            /\ BenchCall
            /\ harness.frames_consumed = 0
            /\ result'.frames_consumed >= 1
            /\ harness'.count = 1 =>
                 (result'.frames_written = 0 /\ result'.frames_consumed = 1 /\ written' = written
                    /\ resampler'.prev_frame = harness.input[1]
                    /\ resampler'.frac_pos = 0)]_vars

\* C24 witness: after a reset has_prev is true again, and calls that were
\* cut short and an empty call have left it true.
C24_Witness ==
    /\ hpc = "bench" /\ harness.resets = 1 /\ harness.before.has_prev = 1
    /\ resampler.has_prev = 1 /\ harness.cut = 1 /\ harness.count = 0
    /\ harness.frames_consumed >= 2

\* the frames written since the last reset
WrittenSince == Drop(written, harness.base)

\* C25: AudioResampler_reset sets frac_pos = 0, has_prev = 0 and prev = zero
\* and leaves the rates and the step as they are, which is the state after
\* AudioResampler_init with the same rates; whatever the state before the
\* reset, the input that follows gives the frames, the counts and the final
\* state that it gives from AudioResampler_init, calls cut short by a full
\* ring included.
C25_ResetIsFreshInit ==
    /\ [][BenchReset =>
            /\ resampler'.frac_pos = 0 /\ resampler'.has_prev = 0
            /\ resampler'.prev_frame = ZeroFrame
            /\ resampler'.sample_rate_in = resampler.sample_rate_in
            /\ resampler'.sample_rate_out = resampler.sample_rate_out
            /\ resampler'.frac_step = resampler.frac_step
            /\ resampler' = AudioResampler_init(resampler.sample_rate_in,
                                                resampler.sample_rate_out)]_vars
    /\ []((hpc = "bench" /\ harness.resets >= 1) =>
            LET all == BenchRef(Len(harness.input), BigCap)
                part == BenchRef(harness.frames_consumed, BigCap)
            IN  /\ harness.frames_written = Len(WrittenSince)
                /\ frames = Drop(harness.input, harness.frames_consumed)
                /\ IsPrefix(WrittenSince, all.out)
                /\ frames = <<>> =>
                     (WrittenSince = all.out /\ resampler = all.resampler)
                /\ harness.cut = 0 =>
                     /\ WrittenSince = part.out
                     /\ harness.frames_written = part.frames_written
                     /\ resampler = part.resampler)

\* C25 witness: the resampler was reset between two input frames with the
\* phase not zero, and three new frames have gone through it since.
C25_Witness ==
    /\ hpc = "bench" /\ harness.resets = 1 /\ frames = <<>>
    /\ harness.before.has_prev = 1 /\ harness.before.frac_pos # 0
    /\ harness.before.prev_frame # ZeroFrame
    /\ Len(harness.input) = 3 /\ harness.frames_consumed = 3
    /\ Len(WrittenSince) >= 3

\* C26: SND_getBufferOccupancy takes the lock, which must be free, and gives
\* it back, returns a number in 0..100 that is the percentage of the capacity
\* taken up by the frames between the cursors, truncated, and changes nothing
\* of the sound context.
C26_OccupancyTruncatedPercent ==
    [][SND_getBufferOccupancy =>
         /\ lock = "none" /\ lock' = "none"
         /\ ret' \in 0..100
         /\ ret' = (100 * AdjFilled) \div AdjCount
         /\ UNCHANGED <<snd_vars, dev_vars, hist_vars>>]_vars

\* C27: a successful SND_resizeBuffer reallocates, zero-fills and resets the
\* cursors in one locked section: on its return every slot of the store is
\* zero, both cursors are 0 and the fill level is 0; no callback runs while
\* the host is inside SND_resizeBuffer, and a callback that finds a store
\* finds it of the capacity, with both cursors inside it.
C27_ResizeHardReset ==
    /\ [][SND_resizeBuffer_alloc(TRUE) =>
            /\ lock = "host" /\ lock' = "none"
            /\ frame_count' = frame_count
            /\ buffer' = Zeros(frame_count)
            /\ frame_in' = 0 /\ frame_out' = 0
            /\ SND_getBufferFillLevel(frame_count', frame_in', frame_out')[1]
                 = 0]_vars
    /\ []((hpc = "init_end" /\ buffer # NULL) =>
            /\ \A i \in 1..frame_count : buffer[i] = ZeroFrame
            /\ Len(buffer) = frame_count
            /\ frame_in = 0 /\ frame_out = 0)
    /\ [][AnyCallback =>
            /\ hpc \notin ResizePcs
            /\ buffer # NULL =>
                 /\ Len(buffer) = frame_count
                 /\ frame_in < frame_count /\ frame_out < frame_count]_vars

\* C27 witness: the engine was shut down after frames had gone through its
\* store and is initialised again; the resize has just given a zeroed store.
C27_Witness ==
    /\ hpc = "init_end" /\ buffer # NULL /\ frame_count >= 2
    /\ submitted >= 2 /\ carry = <<>>
    /\ buffer = Zeros(frame_count)

\* C28: every call of AudioResampler_resample ends, by consuming its batch or
\* by stopping on a full ring, whatever the rates the resampler was
\* initialised with, the adjustment and the batch, with a ring or on a dry run.
C28_ResampleTerminates ==
    /\ harness.last \in {"none", "done", "full"}
    /\ hpc \in {"bench_init", "bench"}

\* C29: whenever the capacity is positive and no locked section is in
\* progress, frame_filled is the slot before frame_out, round the ring: the
\* slot the full check of the resampler keeps unwritten.
C29_LastReadBehindReadCursor ==
    (Unlocked /\ frame_count > 0) =>
        frame_filled = (frame_out - 1) % frame_count

\* a step of SND_batchSamples
BatchStep == (\E n \in 0..MaxBatch : SND_batchSamples_enter(n)) \/ HostBatchStep

\* the slots that hold frames stored and not yet read
UnreadIndices ==
    IF frame_count = 0 THEN {}
    ELSE {(frame_out + k) % frame_count :
             k \in 0..(((frame_in - frame_out) % frame_count) - 1)}

\* C30: the callback changes frame_out and frame_filled and nothing else of
\* the sound context: not frame_in, not the store, not the resampler, not the
\* capacity.  SND_batchSamples changes frame_in, the store and the resampler
\* and nothing else: not frame_out, not frame_filled; the slots it stores to
\* held no unread frame and are not the slot of the last frame read.  So
\* frame_in is written by SND_batchSamples alone and frame_out by the callback
\* alone, the hard reset of initialisation and resize apart.
C30_SingleWriterPerCursor ==
    /\ [][AnyCallback =>
            UNCHANGED <<frame_in, buffer, resampler, frame_count, initialized,
                        sample_rate_in, sample_rate_out, written>>]_vars
    /\ [][BatchStep =>
            /\ UNCHANGED <<frame_out, frame_filled, frame_count, initialized,
                           sample_rate_in, sample_rate_out, delivered>>
            /\ \A i \in 1..Len(buffer) :
                 buffer'[i] # buffer[i] =>
                    (i - 1 \notin UnreadIndices /\ i - 1 # frame_filled)]_vars
    /\ [][frame_in' # frame_in => (SND_batchSamples_commit \/ CursorReset)]_vars
    /\ [][frame_out' # frame_out => (Pull \/ CursorReset)]_vars
    /\ [][(buffer' # buffer /\ buffer # NULL /\ buffer' # NULL)
            => SND_batchSamples_resample]_vars
    /\ [][resampler' # resampler =>
            (SND_batchSamples_resample \/ CursorReset)]_vars

\* C30 witness: a call of SND_batchSamples has stored frames round the end of
\* the ring, next to frames not yet read, after callbacks had read frames.
C30_Witness ==
    /\ hpc = "bs_commit" /\ result.frames_written >= 1
    /\ ring.write_pos < frame_in
    /\ Len(delivered) >= 1
    /\ UnreadCount > result.frames_written

====
